---- MODULE Spec2Model ----
(***************************************************************************)
(* A model of check.js, the VFS slot monitor: one run of the script, from  *)
(* reading MONITOR_CONFIG_JSON to "All monitors processed. Exiting.".      *)
(*                                                                         *)
(* Time is counted in epoch minutes (Math.floor(Date.now() / 60000)).      *)
(* A page text is a sequence of words and the two regular expressions are  *)
(* sets of phrases matched as contiguous, case-folded runs of words.       *)
(* Every awaited call of the browser or mail library either resolves or    *)
(* rejects.                                                                *)
(***************************************************************************)
EXTENDS Integers, Sequences, FiniteSets

VARIABLES
    configJson,   \* process.env.MONITOR_CONFIG_JSON
    MONITORS,     \* the parsed config
    EMAIL_USER,   \* process.env.EMAIL_USER
    EMAIL_PASS,   \* process.env.EMAIL_PASS
    nowMin,       \* the clock, in epoch minutes
    now,          \* the local `now` of the run loop (as an epoch minute)
    pc,           \* the position of the script
    i,            \* index of the monitor the for-of loop is at (1-based)
    bodyText,     \* the local bodyText of checkSingle
    browsersOpen, \* browsers launched and not closed
    hist,         \* per monitor: what the run did for it
    order         \* indices of the monitors in the order the loop took them

vars == <<configJson, MONITORS, EMAIL_USER, EMAIL_PASS, nowMin, now, pc, i,
          bodyText, browsersOpen, hist, order>>

----------------------------------------------------------------------------
(* Bounds *)

MaxMonitors == 2
MaxTicks == 2

(* Program constants *)

DefaultFrequency == 15
MinFrequency == 5
Radix == 10

----------------------------------------------------------------------------
(* JavaScript values *)

Unset == "<undefined>"

\* !v for an environment value: undefined and '' are falsy
Falsy(v) == v = Unset \/ v = ""

Undefined == [t |-> "undefined", n |-> 0, s |-> <<>>]
Number(k) == [t |-> "number", n |-> k, s |-> <<>>]
String(str) == [t |-> "string", n |-> 0, s |-> str]
NaN == [nan |-> TRUE, n |-> 0]
IntValue(k) == [nan |-> FALSE, n |-> k]

DigitChars == <<"0", "1", "2", "3", "4", "5", "6", "7", "8", "9">>

IsDigit(c) == \E d \in 1..Len(DigitChars) : DigitChars[d] = c

DigitVal(c) == (CHOOSE d \in 1..Len(DigitChars) : DigitChars[d] = c) - 1

RECURSIVE NatToString(_)
NatToString(k) ==
    IF k < Radix THEN <<DigitChars[k + 1]>>
    ELSE NatToString(k \div Radix) \o <<DigitChars[(k % Radix) + 1]>>

\* String(v), the conversion parseInt applies to its first argument
ToString(v) ==
    CASE v.t = "string" -> v.s
      [] v.t = "number" -> IF v.n < 0 THEN <<"-">> \o NatToString(-v.n)
                           ELSE NatToString(v.n)
      [] OTHER -> <<"u", "n", "d", "e", "f", "i", "n", "e", "d">>

\* a || b on a frequencyMinutes value: undefined, 0 and '' are falsy
Truthy(v) ==
    CASE v.t = "number" -> v.n # 0
      [] v.t = "string" -> v.s # <<>>
      [] OTHER -> FALSE

OrDefault(v, d) == IF Truthy(v) THEN v ELSE d

RECURSIVE SkipWhite(_)
SkipWhite(str) ==
    IF str # <<>> /\ Head(str) = " " THEN SkipWhite(Tail(str)) ELSE str

RECURSIVE DigitPrefix(_, _)
\* the value of the longest prefix of digits of str, read after acc
DigitPrefix(str, acc) ==
    IF str # <<>> /\ IsDigit(Head(str))
    THEN DigitPrefix(Tail(str), acc * Radix + DigitVal(Head(str)))
    ELSE acc

\* parseInt(v, 10): leading white space, an optional sign, then digits
parseInt(v) ==
    LET str == SkipWhite(ToString(v))
        neg == str # <<>> /\ Head(str) = "-"
        rest == IF str # <<>> /\ Head(str) \in {"-", "+"} THEN Tail(str) ELSE str
    IN  IF rest = <<>> \/ ~IsDigit(Head(rest)) THEN NaN
        ELSE IntValue(IF neg THEN -DigitPrefix(rest, 0) ELSE DigitPrefix(rest, 0))

----------------------------------------------------------------------------
(* The environment and the configuration *)

\* process.env[key] for the credential keys a monitor may name
processEnv(key) ==
    CASE key = "VFS_USER" -> "applicant@example.org"
      [] key = "VFS_PASS" -> "secret"
      [] key = "VFS_EMPTY" -> ""
      [] OTHER -> Unset

FrequencyValues ==
    {Undefined, Number(0), Number(4), Number(5), Number(7), Number(-5),
     String(<<"a">>)}

ValidCredentialKeys == <<"VFS_USER", "VFS_PASS">>

MissingCredentialKeys ==
    {<<"VFS_MISSING", "VFS_PASS">>, <<"VFS_USER", "VFS_EMPTY">>}

Monitor(f, c) ==
    [frequencyMinutes |-> f, usernameEnvKey |-> c[1], passwordEnvKey |-> c[2]]

\* every frequency with credentials that are set, and the frequencies that can
\* be due with credentials that are not
MonitorConfigs ==
    {Monitor(f, ValidCredentialKeys) : f \in FrequencyValues}
    \cup {Monitor(f, c) : f \in {Undefined, Number(MinFrequency)},
                          c \in MissingCredentialKeys}

RECURSIVE SeqsUpTo(_, _)
SeqsUpTo(S, k) ==
    IF k = 0 THEN {<<>>}
    ELSE LET shorter == SeqsUpTo(S, k - 1)
         IN  shorter \cup {Append(q, x) : q \in shorter, x \in S}

\* the values of MONITOR_CONFIG_JSON: unset, '', text that is not JSON, the
\* JSON text null, and the JSON text of an array of monitors
ConfigValues ==
    {[kind |-> k, items |-> <<>>] : k \in {"unset", "empty", "null"}}
    \cup {[kind |-> "malformed", items |-> q] : q \in SeqsUpTo(MonitorConfigs, 1)}
    \cup {[kind |-> "array", items |-> q] : q \in SeqsUpTo(MonitorConfigs, MaxMonitors)}

\* EMAIL_USER and EMAIL_PASS: both set, the first unset, the second empty
EmailValues ==
    {<<"notify@example.org", "app-password">>,
     <<Unset, "app-password">>,
     <<"notify@example.org", "">>}

\* process.env.MONITOR_CONFIG_JSON || '[]'
MONITOR_CONFIG_JSON ==
    IF configJson.kind \in {"unset", "empty"}
    THEN [kind |-> "array", items |-> <<>>]
    ELSE configJson

\* a parse that never throws
JSONparseNeverThrows(text) == FALSE

JSONparseThrows(text) == text.kind = "malformed"

JSONparse(text) == [kind |-> IF text.kind = "null" THEN "null" ELSE "array",
                    items |-> text.items]

----------------------------------------------------------------------------
(* The page text and the two patterns *)

LowerCase(w) ==
    CASE w = "Choose" -> "choose"
      [] w = "No" -> "no"
      [] w = "Slots" -> "slots"
      [] OTHER -> w

FoldCase(text) == [k \in 1..Len(text) |-> LowerCase(text[k])]

\* phrase occurs in text as a contiguous run
Contains(text, phrase) ==
    \E at \in 0..(Len(text) - Len(phrase)) :
        \A k \in 1..Len(phrase) : text[at + k] = phrase[k]

\* /.../i.test(text) for a pattern that is an alternation of phrases
Test(pattern, text) == \E phrase \in pattern : Contains(FoldCase(text), phrase)

noSlotPattern ==
    {<<"no", "appointment", "slots", "are", "currently", "available">>,
     <<"no", "appointments", "available">>,
     <<"no", "slots", "available">>}

availablePattern ==
    {<<"appointments", "available">>,
     <<"slots", "available">>,
     <<"next", "available", "appointment">>,
     <<"choose", "a", "slot">>}

\* what page.textContent('body') may resolve to; null tests as 'null'
PageTexts ==
    {<<"null">>,
     <<"welcome">>,
     <<"Slots", "available">>,
     <<"No", "slots", "available">>,
     <<"no", "appointments", "available">>,
     <<"no", "appointment", "slots", "are", "currently", "available">>,
     <<"Choose", "a", "slot">>,
     <<"next", "available", "appointment", "no", "slots", "available">>}

\* the test without its no-slot half
SlotFoundIgnoringNoSlot(text) == Test(availablePattern, text)

SlotFound(text) == Test(availablePattern, text) /\ ~Test(noSlotPattern, text)

----------------------------------------------------------------------------
(* The run *)

FirstMinute == DefaultFrequency - 1
LastMinute == FirstMinute + MaxTicks

ZeroHist ==
    [decision |-> "none", freq |-> NaN, minute |-> 0, launches |-> 0, closes |-> 0,
     read |-> FALSE, found |-> FALSE, mailAttempts |-> 0, mailsSent |-> 0,
     mailSkips |-> 0, errorsLogged |-> 0, returned |-> FALSE]

Init ==
    /\ configJson \in ConfigValues
    /\ MONITORS = [kind |-> "undefined", items |-> <<>>]
    /\ \E e \in EmailValues : EMAIL_USER = e[1] /\ EMAIL_PASS = e[2]
    /\ nowMin = FirstMinute
    /\ now = 0
    /\ pc = "parse"
    /\ i = 0
    /\ bodyText = <<>>
    /\ browsersOpen = 0
    /\ hist = <<>>
    /\ order = <<>>

Running == pc \notin {"done", "exit1", "rejected"}

\* the calls the script awaits
Awaiting ==
    pc \in {"launch", "newContext", "newPage", "steps", "read", "sendMail", "finally"}

\* time passes before the script starts and while it awaits a call
Tick ==
    /\ pc = "parse" \/ Awaiting
    /\ nowMin < LastMinute
    /\ nowMin' = nowMin + 1
    /\ UNCHANGED <<configJson, MONITORS, EMAIL_USER, EMAIL_PASS, now, pc, i,
                   bodyText, browsersOpen, hist, order>>

\* lines 5-8: parse the config, or log and process.exit(1)
ParseConfig ==
    /\ pc = "parse"
    /\ IF JSONparseThrows(MONITOR_CONFIG_JSON)
       THEN /\ pc' = "exit1"
            /\ UNCHANGED <<MONITORS, hist>>
       ELSE /\ MONITORS' = JSONparse(MONITOR_CONFIG_JSON)
            /\ hist' = [k \in 1..Len(MONITORS'.items) |-> ZeroHist]
            /\ pc' = "main"
    /\ UNCHANGED <<configJson, EMAIL_USER, EMAIL_PASS, nowMin, now, i, bodyText,
                   browsersOpen, order>>

\* lines 157-160: the run starts; for-of over a value that is not iterable throws
MainStart ==
    /\ pc = "main"
    /\ now' = nowMin
    /\ IF MONITORS.kind = "array"
       THEN pc' = "loop" /\ i' = 1
       ELSE pc' = "rejected" /\ i' = i
    /\ UNCHANGED <<configJson, MONITORS, EMAIL_USER, EMAIL_PASS, nowMin, bodyText,
                   browsersOpen, hist, order>>

m == MONITORS.items[i]

\* line 162
freq == parseInt(OrDefault(m.frequencyMinutes, Number(DefaultFrequency)))

\* line 163
InvalidFrequency(f) == f.nan \/ f.n < MinFrequency

\* the due test negated
isDueNegated(frequencyMinutes) == (nowMin % frequencyMinutes) # 0

\* lines 34-37
isDue(frequencyMinutes) == (nowMin % frequencyMinutes) = 0

username == processEnv(m.usernameEnvKey)
password == processEnv(m.passwordEnvKey)

\* the credential test with && for ||
CredentialsMissingBoth == Falsy(username) /\ Falsy(password)

\* line 44
CredentialsMissing == Falsy(username) \/ Falsy(password)

\* line 15
EmailCredentialsMissing == Falsy(EMAIL_USER) \/ Falsy(EMAIL_PASS)

AtMonitor == pc = "loop" /\ i <= Len(MONITORS.items)

\* what the loop decides for the monitor, with the freq and the minute it used
Decide(d) ==
    [hist EXCEPT ![i].decision = d, ![i].freq = freq, ![i].minute = nowMin]

\* a close that leaves the browser open
AfterCloseStillOpen(n) == n

\* the browser count after browser.close() resolves
AfterClose(n) == n - 1

\* checkSingle returns and the loop goes to the next monitor
NextMonitor == pc' = "loop" /\ i' = i + 1

\* lines 163-166
SkipInvalid ==
    /\ AtMonitor
    /\ InvalidFrequency(freq)
    /\ hist' = Decide("invalid")
    /\ order' = Append(order, i)
    /\ NextMonitor
    /\ UNCHANGED <<configJson, MONITORS, EMAIL_USER, EMAIL_PASS, nowMin, now,
                   bodyText, browsersOpen>>

\* lines 167, 169-171
SkipNotDue ==
    /\ AtMonitor
    /\ ~InvalidFrequency(freq)
    /\ ~isDue(freq.n)
    /\ hist' = Decide("notDue")
    /\ order' = Append(order, i)
    /\ NextMonitor
    /\ UNCHANGED <<configJson, MONITORS, EMAIL_USER, EMAIL_PASS, nowMin, now,
                   bodyText, browsersOpen>>

\* lines 167-168, 42-47
MissingCredentials ==
    /\ AtMonitor
    /\ ~InvalidFrequency(freq)
    /\ isDue(freq.n)
    /\ CredentialsMissing
    /\ hist' = [Decide("missingCredentials") EXCEPT ![i].returned = TRUE]
    /\ order' = Append(order, i)
    /\ NextMonitor
    /\ UNCHANGED <<configJson, MONITORS, EMAIL_USER, EMAIL_PASS, nowMin, now,
                   bodyText, browsersOpen>>

\* lines 167-168, 42-50: chromium.launch is called
StartCheck ==
    /\ AtMonitor
    /\ ~InvalidFrequency(freq)
    /\ isDue(freq.n)
    /\ ~CredentialsMissing
    /\ hist' = Decide("check")
    /\ order' = Append(order, i)
    /\ pc' = "launch"
    /\ UNCHANGED <<configJson, MONITORS, EMAIL_USER, EMAIL_PASS, nowMin, now, i,
                   bodyText, browsersOpen>>

\* line 50: the launch resolves, or rejects outside the try block
Launch ==
    /\ pc = "launch"
    /\ \E resolves \in BOOLEAN :
        IF resolves
        THEN /\ browsersOpen' = browsersOpen + 1
             /\ hist' = [hist EXCEPT ![i].launches = @ + 1]
             /\ pc' = "newContext"
        ELSE /\ pc' = "rejected"
             /\ UNCHANGED <<browsersOpen, hist>>
    /\ UNCHANGED <<configJson, MONITORS, EMAIL_USER, EMAIL_PASS, nowMin, now, i,
                   bodyText, order>>

\* line 51
NewContext ==
    /\ pc = "newContext"
    /\ \E resolves \in BOOLEAN : pc' = IF resolves THEN "newPage" ELSE "rejected"
    /\ UNCHANGED <<configJson, MONITORS, EMAIL_USER, EMAIL_PASS, nowMin, now, i,
                   bodyText, browsersOpen, hist, order>>

\* line 52
NewPage ==
    /\ pc = "newPage"
    /\ \E resolves \in BOOLEAN : pc' = IF resolves THEN "steps" ELSE "rejected"
    /\ UNCHANGED <<configJson, MONITORS, EMAIL_USER, EMAIL_PASS, nowMin, now, i,
                   bodyText, browsersOpen, hist, order>>

\* lines 56-133: login, start booking, select centre and visa type, next
PageSteps ==
    /\ pc = "steps"
    /\ \E resolves \in BOOLEAN : pc' = IF resolves THEN "read" ELSE "catch"
    /\ UNCHANGED <<configJson, MONITORS, EMAIL_USER, EMAIL_PASS, nowMin, now, i,
                   bodyText, browsersOpen, hist, order>>

\* line 136
TextContent ==
    /\ pc = "read"
    /\ \/ /\ \E text \in PageTexts : bodyText' = text
          /\ hist' = [hist EXCEPT ![i].read = TRUE]
          /\ pc' = "test"
       \/ /\ pc' = "catch"
          /\ UNCHANGED <<bodyText, hist>>
    /\ UNCHANGED <<configJson, MONITORS, EMAIL_USER, EMAIL_PASS, nowMin, now, i,
                   browsersOpen, order>>

\* lines 139-148 and 14-23: test the text; on a slot, sendEmail either skips
\* or calls transporter.sendMail
TestText ==
    /\ pc = "test"
    /\ IF SlotFound(bodyText)
       THEN IF EmailCredentialsMissing
            THEN /\ hist' = [hist EXCEPT ![i].found = TRUE, ![i].mailSkips = @ + 1]
                 /\ pc' = "finally"
            ELSE /\ hist' = [hist EXCEPT ![i].found = TRUE, ![i].mailAttempts = @ + 1]
                 /\ pc' = "sendMail"
       ELSE /\ pc' = "finally"
            /\ UNCHANGED hist
    /\ UNCHANGED <<configJson, MONITORS, EMAIL_USER, EMAIL_PASS, nowMin, now, i,
                   bodyText, browsersOpen, order>>

\* lines 23-29
SendMail ==
    /\ pc = "sendMail"
    /\ \E resolves \in BOOLEAN :
        IF resolves
        THEN /\ hist' = [hist EXCEPT ![i].mailsSent = @ + 1]
             /\ pc' = "finally"
        ELSE /\ pc' = "catch"
             /\ UNCHANGED hist
    /\ UNCHANGED <<configJson, MONITORS, EMAIL_USER, EMAIL_PASS, nowMin, now, i,
                   bodyText, browsersOpen, order>>

\* lines 150-151
Catch ==
    /\ pc = "catch"
    /\ hist' = [hist EXCEPT ![i].errorsLogged = @ + 1]
    /\ pc' = "finally"
    /\ UNCHANGED <<configJson, MONITORS, EMAIL_USER, EMAIL_PASS, nowMin, now, i,
                   bodyText, browsersOpen, order>>

\* lines 152-155: browser.close() resolves and checkSingle returns, or it
\* rejects and the rejection leaves checkSingle
Finally ==
    /\ pc = "finally"
    /\ \E resolves \in BOOLEAN :
        IF resolves
        THEN /\ browsersOpen' = AfterClose(browsersOpen)
             /\ hist' = [hist EXCEPT ![i].closes = @ + 1, ![i].returned = TRUE]
             /\ bodyText' = <<>>
             /\ NextMonitor
        ELSE /\ pc' = "rejected"
             /\ UNCHANGED <<browsersOpen, hist, bodyText, i>>
    /\ UNCHANGED <<configJson, MONITORS, EMAIL_USER, EMAIL_PASS, nowMin, now, order>>

\* line 173
Finish ==
    /\ pc = "loop"
    /\ i > Len(MONITORS.items)
    /\ pc' = "done"
    /\ UNCHANGED <<configJson, MONITORS, EMAIL_USER, EMAIL_PASS, nowMin, now, i,
                   bodyText, browsersOpen, hist, order>>

Next ==
    \/ Tick
    \/ ParseConfig
    \/ MainStart
    \/ SkipInvalid
    \/ SkipNotDue
    \/ MissingCredentials
    \/ StartCheck
    \/ Launch
    \/ NewContext
    \/ NewPage
    \/ PageSteps
    \/ TextContent
    \/ TestText
    \/ SendMail
    \/ Catch
    \/ Finally
    \/ Finish

Spec == Init /\ [][Next]_vars

----------------------------------------------------------------------------
(* Properties *)

Count == Len(MONITORS.items)
Ended == ~Running
Started(k) == hist[k].decision # "none"

\* the check of monitor k is over: checkSingle returned, or a rejection left it
CheckOver(k) == hist[k].returned \/ (k = i /\ pc = "rejected")

\* the frequency the loop computed for monitor k, and the credentials it reads
FrequencyOf(k) == hist[k].freq
UsernameOf(k) == processEnv(MONITORS.items[k].usernameEnvKey)
PasswordOf(k) == processEnv(MONITORS.items[k].passwordEnvKey)
CredentialsSet(k) == UsernameOf(k) \notin {Unset, ""} /\ PasswordOf(k) \notin {Unset, ""}
EmailSet == EMAIL_USER \notin {Unset, ""} /\ EMAIL_PASS \notin {Unset, ""}
ValidFrequency(k) == ~FrequencyOf(k).nan /\ FrequencyOf(k).n >= MinFrequency

\* C1: whatever fails during one monitor's check (from the launch of the
\* browser to its close), the run of a parsed list of monitors ends by
\* logging 'All monitors processed' after taking every monitor.
C1_FailuresDoNotPropagate ==
    (MONITORS.kind = "array" /\ Ended) =>
        (pc = "done" /\ Len(order) = Count /\ \A k \in 1..Count : Started(k))

\* C2: a MONITOR_CONFIG_JSON that is not JSON halts the run with exit code 1
\* before any monitor is looked at, any browser launched or any mail sent; an
\* unset MONITOR_CONFIG_JSON is the empty list and the run ends normally
\* having taken no monitor.
C2_ParseFailureHalts ==
    /\ configJson.kind = "malformed" =>
          /\ pc \in {"parse", "exit1"}
          /\ order = <<>> /\ hist = <<>> /\ browsersOpen = 0 /\ i = 0
    /\ configJson.kind = "unset" =>
          /\ pc \in {"parse", "main", "loop", "done"}
          /\ pc # "parse" => MONITORS = [kind |-> "array", items |-> <<>>]
          /\ order = <<>> /\ hist = <<>> /\ browsersOpen = 0

C2_Witness == pc = "exit1" /\ configJson.items # <<>>

\* C3: at most one browser is open, and a monitor is taken up only after
\* every monitor before it is finished with, its browser closed.
C3_Sequential ==
    /\ browsersOpen <= 1
    /\ \A k \in 1..Len(hist) : Started(k) =>
          /\ k <= i
          /\ \A j \in 1..(k - 1) :
                /\ Started(j)
                /\ hist[j].decision \in {"invalid", "notDue"} \/ hist[j].returned
                /\ hist[j].launches = hist[j].closes
    /\ \A k \in 1..Len(hist) : k < i => hist[k].launches = hist[k].closes

C3_Witness ==
    /\ Len(hist) >= 2
    /\ hist[1].launches = 1 /\ hist[1].closes = 1
    /\ hist[2].launches = 1 /\ hist[2].closes = 0
    /\ browsersOpen = 1

\* C4 as stated: once a monitor's check is over, a mail was sent for it if
\* and only if the page text was read, the text matches the availability
\* pattern and not the no-slot pattern, and EMAIL_USER and EMAIL_PASS are set.
C4_SentIff ==
    \A k \in 1..Len(hist) : CheckOver(k) =>
        (hist[k].mailsSent > 0 <=> (hist[k].read /\ hist[k].found /\ EmailSet))

\* C4 as amended: transporter.sendMail is called for a monitor if and only if
\* the page text was read, matches the availability pattern and not the
\* no-slot pattern, and EMAIL_USER and EMAIL_PASS are set; a mail is sent only
\* by such a call; with the mail credentials missing the send is skipped and
\* no error is logged for it.
C4_AttemptedIff ==
    /\ \A k \in 1..Len(hist) :
          /\ hist[k].mailAttempts > 0 => (hist[k].read /\ hist[k].found /\ EmailSet)
          /\ hist[k].mailsSent <= hist[k].mailAttempts
          /\ CheckOver(k) =>
                (hist[k].mailAttempts > 0 <=>
                    (hist[k].read /\ hist[k].found /\ EmailSet))
          /\ (hist[k].found /\ ~EmailSet /\ (k < i \/ pc \in {"finally", "rejected"})) =>
                (hist[k].mailSkips = 1 /\ hist[k].errorsLogged = 0)
    /\ (pc \in {"sendMail", "finally", "catch"} /\ hist[i].read) =>
          (hist[i].found <=>
              (Test(availablePattern, bodyText) /\ ~Test(noSlotPattern, bodyText)))

C4_Witness ==
    /\ pc = "finally"
    /\ hist[i].read /\ ~hist[i].found
    /\ Test(availablePattern, bodyText) /\ Test(noSlotPattern, bodyText)
    /\ Len(hist) >= 2 /\ i = 2
    /\ hist[1].returned /\ hist[1].mailAttempts = 1 /\ hist[1].mailsSent = 1

\* C5: a browser is launched for a monitor only if, when the loop took the
\* monitor, its frequency was valid, the epoch minute was a multiple of it and
\* both its credentials were non-empty; a monitor that is not due gets no
\* browser and no mail.
C5_LaunchOnlyIfDue ==
    \A k \in 1..Len(hist) :
        /\ (hist[k].launches > 0 \/ hist[k].decision = "check" \/ (k = i /\ pc = "launch")) =>
              /\ ValidFrequency(k)
              /\ hist[k].minute % FrequencyOf(k).n = 0
              /\ CredentialsSet(k)
        /\ (Started(k) /\ ValidFrequency(k) /\ hist[k].minute % FrequencyOf(k).n # 0) =>
              /\ hist[k].decision = "notDue"
              /\ hist[k].launches = 0 /\ hist[k].mailAttempts = 0 /\ hist[k].mailsSent = 0

C5_Witness ==
    /\ Len(hist) >= 2
    /\ hist[1].decision = "notDue"
    /\ hist[2].launches = 1
    /\ browsersOpen = 1

\* C6: every due decision of a run is taken against the minute the run
\* started in.
C6_SameMinute ==
    \A k \in 1..Len(hist) : (Started(k) /\ ValidFrequency(k)) =>
        (hist[k].decision # "notDue" <=> now % FrequencyOf(k).n = 0)

\* C7: an absent frequencyMinutes counts as 15; a frequencyMinutes that is
\* not a number or is below 5 (0 and negative values too) is reported invalid
\* and the monitor skipped, with no browser and no mail.
C7_FrequencyValidation ==
    \A k \in 1..Len(hist) : Started(k) =>
        LET f == MONITORS.items[k].frequencyMinutes
        IN  /\ f.t = "undefined" =>
                  /\ hist[k].decision # "invalid"
                  /\ hist[k].decision = "notDue" <=>
                        hist[k].minute % DefaultFrequency # 0
            /\ (f.t = "string" \/ (f.t = "number" /\ f.n < MinFrequency)) =>
                  /\ hist[k].decision = "invalid"
                  /\ hist[k].launches = 0 /\ hist[k].mailAttempts = 0
                  /\ k < i

\* C8: a due monitor whose username or password variable is unset or empty
\* makes checkSingle return without a browser and without a mail, and the
\* loop goes on to the next monitor.
C8_MissingCredentials ==
    \A k \in 1..Len(hist) :
        (/\ Started(k)
         /\ ValidFrequency(k)
         /\ hist[k].minute % FrequencyOf(k).n = 0
         /\ ~CredentialsSet(k)) =>
            /\ hist[k].decision = "missingCredentials"
            /\ hist[k].returned
            /\ hist[k].launches = 0 /\ hist[k].mailAttempts = 0
            /\ hist[k].errorsLogged = 0
            /\ k < i

C8_Witness ==
    /\ Len(hist) >= 2
    /\ hist[1].decision = "missingCredentials"
    /\ PasswordOf(1) = ""
    /\ hist[2].launches = 1

\* C9: when the run of a parsed list of monitors has ended, every monitor
\* was taken exactly once, in the order of the config, with at most one
\* browser launch and at most one mail attempt each.
C9_ExactlyOnce ==
    (MONITORS.kind = "array" /\ Ended) =>
        /\ order = [k \in 1..Count |-> k]
        /\ \A k \in 1..Count : hist[k].launches <= 1 /\ hist[k].mailAttempts <= 1

\* C10: a browser that checkSingle launched is closed when checkSingle is
\* over, so no browser is open when the next monitor is taken or the run has
\* ended.
C10_BrowserClosed ==
    /\ \A k \in 1..Len(hist) : CheckOver(k) => hist[k].launches = hist[k].closes
    /\ (pc = "loop" \/ Ended) => browsersOpen = 0

====
